---- MODULE Spec2Model ----
(***************************************************************************)
(* Model of app.py: the table cleaner clean_data, the profiler             *)
(* get_dataset_summary, and the upload pipeline main / load_data /         *)
(* generate_insights.  Library calls follow pandas 1.x/2.x, where text     *)
(* columns read from a file have dtype object.                             *)
(*                                                                         *)
(* A table is a sequence of columns [name, dtype, vals].  A name is a      *)
(* sequence of one-character strings.  A cell is a record [k, s, n]:       *)
(*   k = "na"   the missing-marker (NaN / NaT)                             *)
(*   k = "str"  a string, held in s                                        *)
(*   k = "num"  a number; n holds TWICE its value, so that the mean of two *)
(*              integers is exact                                          *)
(*   k = "bool" a boolean; n is 0 or 1                                     *)
(*   k = "ts"   a timestamp; n counts nanoseconds since the epoch          *)
(***************************************************************************)
EXTENDS Integers, Sequences, FiniteSets, TLC

VARIABLES pc, raw, df, err, pass, first, snap, file, log, summary, insights

vars == <<pc, raw, df, err, pass, first, snap, file, log, summary, insights>>

----------------------------------------------------------------------------
(* Bounds of the explored inputs *)

MaxRows == 3

MaxTallDistinct == 4

----------------------------------------------------------------------------
(* Program constants *)

\* unique_ratio < 0.3, kept as the fraction ThreshNum / ThreshDen
ThreshNum == 3

ThreshDen == 10

\* df.head(3) in the summary
SampleRows == 3

Keywords ==
    { <<"d","a","t","e">>, <<"t","i","m","e">>, <<"y","e","a","r">>,
      <<"d","a","y">>, <<"m","o","n","t","h">> }

FallbackMessage == "AI could not generate insights. Please check your data."

----------------------------------------------------------------------------
(* Cells *)

Missing == [k |-> "na", s |-> "", n |-> 0]

Str(x) == [k |-> "str", s |-> x, n |-> 0]

Num(v) == [k |-> "num", s |-> "", n |-> 2 * v]

Half(h) == [k |-> "num", s |-> "", n |-> h]

Bool(b) == [k |-> "bool", s |-> "", n |-> IF b THEN 1 ELSE 0]

Ts(t) == [k |-> "ts", s |-> "", n |-> t]

\* NaT viewed as int64 is the smallest int64; it is kept symbolic
INat == [k |-> "num", s |-> "INT64_MIN", n |-> 0]

IsNa(c) == c.k = "na"

----------------------------------------------------------------------------
(* Generic helpers *)

Range(f) == { f[i] : i \in DOMAIN f }

SetMin(S) == CHOOSE x \in S : \A y \in S : x <= y

SetMax(S) == CHOOSE x \in S : \A y \in S : x >= y

RECURSIVE SelectIdx(_, _)
\* the members of the index set S, ascending, as a sequence
SelectIdx(S, n) ==
    IF n = 0 THEN <<>>
    ELSE IF n \in S THEN Append(SelectIdx(S, n - 1), n)
         ELSE SelectIdx(S, n - 1)

Head_(s, k) == IF Len(s) <= k THEN s ELSE SubSeq(s, 1, k)

----------------------------------------------------------------------------
(* Column names: str.lower() and the `in` substring test *)

UpperToLower ==
    [c \in {"A","B","C","D","E","F","G","H","I","J","K","L","M","N","O","P",
            "Q","R","S","T","U","V","W","X","Y","Z"} |->
       CASE c = "A" -> "a" [] c = "B" -> "b" [] c = "C" -> "c" [] c = "D" -> "d"
         [] c = "E" -> "e" [] c = "F" -> "f" [] c = "G" -> "g" [] c = "H" -> "h"
         [] c = "I" -> "i" [] c = "J" -> "j" [] c = "K" -> "k" [] c = "L" -> "l"
         [] c = "M" -> "m" [] c = "N" -> "n" [] c = "O" -> "o" [] c = "P" -> "p"
         [] c = "Q" -> "q" [] c = "R" -> "r" [] c = "S" -> "s" [] c = "T" -> "t"
         [] c = "U" -> "u" [] c = "V" -> "v" [] c = "W" -> "w" [] c = "X" -> "x"
         [] c = "Y" -> "y" [] c = "Z" -> "z"]

Lower(name) ==
    [i \in 1..Len(name) |->
        IF name[i] \in DOMAIN UpperToLower THEN UpperToLower[name[i]] ELSE name[i]]

Contains(name, kw) ==
    \E i \in 1..(Len(name) - Len(kw) + 1) : SubSeq(name, i, i + Len(kw) - 1) = kw

EndsWith(name, suffix) ==
    /\ Len(name) >= Len(suffix)
    /\ SubSeq(name, Len(name) - Len(suffix) + 1, Len(name)) = suffix

\* any(keyword in col.lower() for keyword in [...])
NameMatches(name) == \E kw \in Keywords : Contains(Lower(name), kw)

----------------------------------------------------------------------------
(* Tables *)

Rows(t) == IF Len(t) = 0 THEN 0 ELSE Len(t[1].vals)

Row(t, i) == [c \in 1..Len(t) |-> t[c].vals[i]]

ColNames(t) == [c \in 1..Len(t) |-> t[c].name]

TakeRows(t, idx) ==
    [c \in 1..Len(t) |->
        [t[c] EXCEPT !.vals = [j \in 1..Len(idx) |-> t[c].vals[idx[j]]]]]

NoDuplicateRows(t) ==
    \A i, j \in 1..Rows(t) : i # j => Row(t, i) # Row(t, j)

\* df.drop_duplicates(): the first of equal rows is kept, NaN equals NaN
drop_duplicates(t) ==
    LET keep == { i \in 1..Rows(t) : \A j \in 1..(i - 1) : Row(t, j) # Row(t, i) }
    IN  TakeRows(t, SelectIdx(keep, Rows(t)))

\* Series.nunique(): distinct values, NaN not counted
nunique(col) == Cardinality({ c \in Range(col.vals) : ~IsNa(c) })

----------------------------------------------------------------------------
(* Parsing of text *)

DateText == "1970-01-01 00:00:00.000000002"

LaterDateText == "1970-01-01 00:00:00.000000007"

\* the texts that pd.to_datetime parses, with the timestamp each one gives
DateValue == (DateText :> 2) @@ (LaterDateText :> 7)

\* pd.to_datetime(errors='coerce') on one text: a timestamp, or NaT
ParseDate(s) == IF s \in DOMAIN DateValue THEN Ts(DateValue[s]) ELSE Missing

\* the texts that pd.to_numeric parses, with the number each one gives
NumberValue == ("1" :> 1) @@ ("7" :> 7)

\* pd.to_numeric(errors='coerce') on one text: a number, or NaN ("nan" is NaN)
ParseNumber(s) == IF s \in DOMAIN NumberValue THEN Num(NumberValue[s]) ELSE Missing

----------------------------------------------------------------------------
(* clean_data, step 2: per-column inference (app.py 78-89) *)

IsNumericDtype(d) == d \in {"int64", "float64"}

\* pd.to_numeric(df[col], errors='coerce') on a column that is neither object
\* nor bool: numbers stay, datetime64 is viewed as int64 nanoseconds, the
\* values of a category column are parsed as numbers
to_numeric(col) ==
    CASE IsNumericDtype(col.dtype) -> col
      [] col.dtype = "datetime64" ->
            [col EXCEPT !.dtype = "int64",
                        !.vals = [i \in 1..Len(col.vals) |->
                                    IF IsNa(col.vals[i]) THEN INat
                                    ELSE Num(col.vals[i].n)]]
      [] OTHER ->
            [col EXCEPT !.dtype = "float64",
                        !.vals = [i \in 1..Len(col.vals) |->
                                    IF col.vals[i].k = "str"
                                    THEN ParseNumber(col.vals[i].s)
                                    ELSE Missing]]

UniqueRatioLowOrEqual(col, n) == nunique(col) * ThreshDen <= ThreshNum * n

\* df[col].nunique() / len(df) < 0.3, for len(df) > 0
UniqueRatioLow(col, n) == nunique(col) * ThreshDen < ThreshNum * n

InferColumn(col, n) ==
    IF col.dtype = "object"
    THEN IF UniqueRatioLow(col, n) THEN [col EXCEPT !.dtype = "category"] ELSE col
    ELSE IF col.dtype = "bool" THEN col
    ELSE to_numeric(col)

\* the loop of lines 78-89; the division by len(df) raises on an empty table
InferTypes(t) ==
    IF Rows(t) = 0 /\ \E c \in 1..Len(t) : t[c].dtype = "object"
    THEN [err |-> "ZeroDivisionError", df |-> t]
    ELSE [err |-> "", df |-> [c \in 1..Len(t) |-> InferColumn(t[c], Rows(t))]]

----------------------------------------------------------------------------
(* clean_data, step 3: date/time columns by name (app.py 92-97) *)

\* pd.to_datetime(df[col], errors='coerce'): text is parsed, numbers count
\* nanoseconds (fractions truncated), a bool column cannot be converted and
\* comes back all NaT
ToDatetimeCell(c) ==
    CASE c.k = "str" -> ParseDate(c.s)
      [] c.k = "num" -> IF c = INat THEN Missing ELSE Ts(c.n \div 2)
      [] c.k = "ts" -> c
      [] OTHER -> Missing

to_datetime(col) ==
    [col EXCEPT !.dtype = "datetime64",
                !.vals = [i \in 1..Len(col.vals) |->
                            ToDatetimeCell(col.vals[i])]]

DatetimePass(t) ==
    [c \in 1..Len(t) |-> IF NameMatches(t[c].name) THEN to_datetime(t[c]) ELSE t[c]]

----------------------------------------------------------------------------
(* clean_data, step 4: missing values (app.py 100-115) *)

Present(col) == { i \in 1..Len(col.vals) : ~IsNa(col.vals[i]) }

fillna(col, v) ==
    [col EXCEPT !.vals = [i \in 1..Len(col.vals) |->
                            IF IsNa(col.vals[i]) THEN v ELSE col.vals[i]]]

\* the k-th smallest (k >= 1) of the n-fields of the present cells
Kth(col, k) ==
    CHOOSE x \in { col.vals[i].n : i \in Present(col) } :
        /\ Cardinality({ i \in Present(col) : col.vals[i].n < x }) < k
        /\ Cardinality({ i \in Present(col) : col.vals[i].n <= x }) >= k

\* Series.median(): NaN is skipped; NaN when nothing is present.  The symbolic
\* INT64_MIN lives only in int64 columns, which hold no NaN, so no median
\* with it is ever used as a fill value.
median(col) ==
    LET m == Cardinality(Present(col))
    IN  IF m = 0 THEN Missing
        ELSE IF m % 2 = 1 THEN Half(Kth(col, (m + 1) \div 2))
        ELSE Half((Kth(col, m \div 2) + Kth(col, m \div 2 + 1)) \div 2)

max_(col) ==
    IF Present(col) = {} THEN Missing
    ELSE Ts(SetMax({ col.vals[i].n : i \in Present(col) }))

\* Series.min() of a datetime column: NaT is skipped; NaT when nothing is present
min_(col) ==
    IF Present(col) = {} THEN Missing
    ELSE Ts(SetMin({ col.vals[i].n : i \in Present(col) }))

\* Series.mode()[0] of a non-empty bool column: the most frequent value, False on a tie
mode0(col) ==
    LET t == Cardinality({ i \in 1..Len(col.vals) : col.vals[i].n = 1 })
        f == Cardinality({ i \in 1..Len(col.vals) : col.vals[i].n = 0 })
    IN  Bool(t > f)

\* astype(str) of a category column: NaN becomes the text "nan"
AstypeStr(col) ==
    [col EXCEPT !.dtype = "object",
                !.vals = [i \in 1..Len(col.vals) |->
                            IF IsNa(col.vals[i]) THEN Str("nan") ELSE col.vals[i]]]

\* lines 105-107: astype(str), fillna("Unknown"), astype("category")
ImputeCategory(col) ==
    [fillna(AstypeStr(col), Str("Unknown")) EXCEPT !.dtype = "category"]

ImputeColumn(col) ==
    CASE IsNumericDtype(col.dtype) -> fillna(col, median(col))
      [] col.dtype = "category" -> ImputeCategory(col)
      [] col.dtype = "bool" -> fillna(col, mode0(col))
      [] col.dtype = "datetime64" -> fillna(col, min_(col))
      [] OTHER -> col

\* mode() of an empty column is empty, so mode()[0] raises
Impute(t) ==
    IF Rows(t) = 0 /\ \E c \in 1..Len(t) : t[c].dtype = "bool"
    THEN [err |-> "KeyError", df |-> t]
    ELSE [err |-> "", df |-> [c \in 1..Len(t) |-> ImputeColumn(t[c])]]

\* clean_data as one function: the result, or the exception it raises
clean_data(t) ==
    LET a == InferTypes(drop_duplicates(t))
        b == Impute(DatetimePass(a.df))
    IN  IF a.err # "" THEN a ELSE b

----------------------------------------------------------------------------
(* get_dataset_summary (app.py 156-180) *)

select_dtypes(t, dtypes) ==
    LET idx == { c \in 1..Len(t) : t[c].dtype \in dtypes }
        s == SelectIdx(idx, Len(t))
    IN  [j \in 1..Len(s) |-> t[s[j]].name]

head(t, k) ==
    [c \in 1..Len(t) |-> [t[c] EXCEPT !.vals = Head_(t[c].vals, k)]]

get_dataset_summary(t) ==
    [ rows |-> Rows(t),
      cols |-> Len(t),
      numeric |-> select_dtypes(t, {"int64", "float64"}),
      categorical |-> select_dtypes(t, {"object", "category"}),
      datetime |-> select_dtypes(t, {"datetime64"}),
      boolean |-> select_dtypes(t, {"bool"}),
      sample |-> head(t, SampleRows) ]

----------------------------------------------------------------------------
(* The explored inputs *)

IdName == <<"i","d">>

StatusName == <<"s","t","a","t","u","s">>

OrderDateName == <<"O","r","d","e","r","_","D","a","t","e">>

\* the values a column of each storage type may hold on input
Domain(dtype) ==
    CASE dtype = "object" -> {Str("a"), Str(DateText), Missing}
      [] dtype = "float64" -> {Num(1), Num(3), Missing}
      [] dtype = "int64" -> {Num(1), Num(2)}
      [] dtype = "bool" -> {Bool(FALSE), Bool(TRUE)}
      [] dtype = "datetime64" -> {Ts(5), Missing}

InputDtypes == {"object", "float64", "int64", "bool", "datetime64"}

Column(name, d, v) == [name |-> name, dtype |-> d, vals |-> v]

\* a two-column table, the first column named id
SmallTable(nm, d1, v1, d2, v2) == << Column(IdName, d1, v1), Column(nm, d2, v2) >>

TallTexts == <<DateText, "a", LaterDateText, "b", "c", "d">>

\* ThreshDen rows with a key column and a text column cycling through k
\* distinct texts, the last cell missing when hole is set
TallTable(k, hole, name) ==
    << [name |-> IdName, dtype |-> "int64", vals |-> [i \in 1..ThreshDen |-> Num(i)]],
       [name |-> name, dtype |-> "object",
        vals |-> [i \in 1..ThreshDen |->
                    IF hole /\ i = ThreshDen THEN Missing
                    ELSE Str(TallTexts[((i - 1) % k) + 1])]] >>

TallTables ==
    { TallTable(k, h, nm) : k \in 1..(IF MaxTallDistinct < Len(TallTexts)
                                       THEN MaxTallDistinct ELSE Len(TallTexts)),
                            h \in BOOLEAN, nm \in {StatusName, OrderDateName} }

\* st.file_uploader gives nothing, or a file: its name and what its bytes hold
CsvName == <<"t",".","c","s","v">>

XlsxName == <<"t",".","x","l","s","x">>

None == <<>>

NoFile == [name |-> <<>>, format |-> "none", table |-> None]

UploadNames == {CsvName, XlsxName}

NoSnap == [dedup |-> None, infer |-> None, dt |-> None]

----------------------------------------------------------------------------
(* clean_data step by step, and applied again to its own result *)

MaxPasses == 2

InitClean ==
    /\ \/ \E n \in 0..MaxRows : \E d1, d2 \in InputDtypes :
          \E nm \in {StatusName, OrderDateName} :
          \E v1 \in [1..n -> Domain(d1)] : \E v2 \in [1..n -> Domain(d2)] :
             raw = SmallTable(nm, d1, v1, d2, v2)
       \/ raw \in TallTables
    /\ df = raw
    /\ pc = "dedup"
    /\ err = ""
    /\ pass = 1
    /\ first = None
    /\ snap = NoSnap
    /\ file = NoFile
    /\ log = <<>>
    /\ summary = None
    /\ insights = ""

\* line 75
DropDuplicatesStep ==
    /\ pc = "dedup"
    /\ df' = drop_duplicates(df)
    /\ snap' = [snap EXCEPT !.dedup = df']
    /\ pc' = "infer"
    /\ UNCHANGED <<raw, err, pass, first, file, log, summary, insights>>

\* lines 78-89
InferStep ==
    /\ pc = "infer"
    /\ LET r == InferTypes(df)
       IN  IF r.err # ""
           THEN /\ pc' = "raised"
                /\ err' = r.err
                /\ UNCHANGED <<df, snap>>
           ELSE /\ pc' = "datetime"
                /\ df' = r.df
                /\ snap' = [snap EXCEPT !.infer = r.df]
                /\ UNCHANGED err
    /\ UNCHANGED <<raw, pass, first, file, log, summary, insights>>

\* lines 92-97
DatetimeStep ==
    /\ pc = "datetime"
    /\ df' = DatetimePass(df)
    /\ snap' = [snap EXCEPT !.dt = df']
    /\ pc' = "impute"
    /\ UNCHANGED <<raw, err, pass, first, file, log, summary, insights>>

\* lines 100-117
ImputeStep ==
    /\ pc = "impute"
    /\ LET r == Impute(df)
       IN  IF r.err # ""
           THEN /\ pc' = "raised"
                /\ err' = r.err
                /\ UNCHANGED df
           ELSE /\ pc' = "done"
                /\ df' = r.df
                /\ UNCHANGED err
    /\ UNCHANGED <<raw, pass, first, snap, file, log, summary, insights>>

\* clean_data called on the table it returned
Reapply ==
    /\ pc = "done"
    /\ pass < MaxPasses
    /\ pass' = pass + 1
    /\ first' = df
    /\ raw' = df
    /\ snap' = NoSnap
    /\ pc' = "dedup"
    /\ UNCHANGED <<df, err, file, log, summary, insights>>

NextClean ==
    \/ DropDuplicatesStep
    \/ InferStep
    \/ DatetimeStep
    \/ ImputeStep
    \/ Reapply

SpecClean == InitClean /\ [][NextClean]_vars

----------------------------------------------------------------------------
(* main: upload, load_data, preview, generate_insights *)

Init ==
    /\ \/ file = NoFile
       \/ \E nm \in UploadNames : file = [name |-> nm, format |-> "garbage", table |-> None]
       \/ \E nm \in UploadNames : \E fmt \in {"csv", "xlsx"} : \E t \in TallTables :
             file = [name |-> nm, format |-> fmt, table |-> t]
       \/ \E nm \in UploadNames : \E fmt \in {"csv", "xlsx"} :
          \E n \in 0..(MaxRows - 1) : \E d1, d2 \in InputDtypes :
          \E cn \in {StatusName, OrderDateName} :
          \E v1 \in [1..n -> Domain(d1)] : \E v2 \in [1..n -> Domain(d2)] :
             file = [name |-> nm, format |-> fmt, table |-> SmallTable(cn, d1, v1, d2, v2)]
    /\ pc = "main"
    /\ raw = None
    /\ df = None
    /\ err = ""
    /\ pass = 1
    /\ first = None
    /\ snap = NoSnap
    /\ log = <<>>
    /\ summary = None
    /\ insights = ""

\* line 64: the extension picks the parser; a parser raises on bytes of
\* another format
Reader(f) == IF EndsWith(f.name, <<".","c","s","v">>) THEN "csv" ELSE "xlsx"

ParseFails(f) == f.format # Reader(f)

IsAnything(x) == TRUE

\* `if df is not None:`
IsGiven(x) == x # None

\* lines 185-190
main ==
    /\ pc = "main"
    /\ log' = <<"title", "subheader">>
    /\ pc' = IF file.format # "none" THEN "load_data" ELSE "end"
    /\ UNCHANGED <<raw, df, err, pass, first, snap, file, summary, insights>>

\* lines 60-70, called from line 191
load_data ==
    /\ pc = "load_data"
    /\ IF ParseFails(file)
       THEN /\ df' = None
            /\ err' = "ParserError"
            /\ log' = Append(log, "error")
            /\ UNCHANGED raw
       ELSE LET r == clean_data(file.table)
            IN  /\ raw' = file.table
                /\ IF r.err # ""
                   THEN /\ df' = None
                        /\ err' = r.err
                        /\ log' = Append(log, "error")
                   ELSE /\ df' = r.df
                        /\ UNCHANGED <<err, log>>
    /\ pc' = "loaded"
    /\ UNCHANGED <<pass, first, snap, file, summary, insights>>

\* lines 192-196
Preview ==
    /\ pc = "loaded"
    /\ IF IsGiven(df)
       THEN /\ log' = log \o <<"preview_header", "preview", "insights_header">>
            /\ pc' = "generate_insights"
       ELSE /\ pc' = "end"
            /\ UNCHANGED log
    /\ UNCHANGED <<raw, df, err, pass, first, snap, file, summary, insights>>

\* line 123
BuildSummary ==
    /\ pc = "generate_insights"
    /\ summary' = <<get_dataset_summary(df)>>
    /\ pc' = "construct"
    /\ UNCHANGED <<raw, df, err, pass, first, snap, file, log, insights>>

\* lines 143-145, outside the try block: a fault here leaves generate_insights
Construct ==
    /\ pc = "construct"
    /\ \E fault \in BOOLEAN :
         IF fault
         THEN /\ pc' = "crashed"
              /\ err' = "ConstructionError"
         ELSE /\ pc' = "run"
              /\ UNCHANGED err
    /\ UNCHANGED <<raw, df, pass, first, snap, file, log, summary, insights>>

\* lines 147-152
RunChain ==
    /\ pc = "run"
    /\ \E fault \in BOOLEAN :
         IF fault
         THEN /\ log' = log \o <<"llm_chain.run", "error">>
              /\ insights' = FallbackMessage
         ELSE /\ log' = Append(log, "llm_chain.run")
              /\ insights' = "prose"
    /\ pc' = "write"
    /\ UNCHANGED <<raw, df, err, pass, first, snap, file, summary>>

\* line 198
Write ==
    /\ pc = "write"
    /\ log' = Append(log, "insights")
    /\ pc' = "end"
    /\ UNCHANGED <<raw, df, err, pass, first, snap, file, summary, insights>>

Next ==
    \/ main
    \/ load_data
    \/ Preview
    \/ BuildSummary
    \/ Construct
    \/ RunChain
    \/ Write

Spec == Init /\ [][Next]_vars

----------------------------------------------------------------------------
(* Properties of clean_data, checked under SpecClean *)

Returned == pc = "done"

\* the column cells that pd.to_datetime turns into a timestamp
ParsedAt(col) == { i \in 1..Len(col.vals) : ~IsNa(ToDatetimeCell(col.vals[i])) }

\* C1: the table clean_data returns holds no two rows equal in all columns
C1_NoDuplicateRowsInOutput == Returned => NoDuplicateRows(df)

\* C2: clean_data applied to its own result returns that result unchanged:
\* same rows in the same order, same cells, same column types
C2_Idempotent == (Returned /\ pass > 1) => df = first

\* C3: in the returned table no typed (non-text) column whose input column
\* had a non-missing value holds a missing-marker
C3_NoMissingInTypedColumns ==
    Returned =>
        \A c \in 1..Len(df) :
            ( /\ df[c].dtype # "object"
              /\ \E i \in 1..Rows(raw) : ~IsNa(raw[c].vals[i]) )
            => \A i \in 1..Rows(df) : ~IsNa(df[c].vals[i])

\* C4: on a table of 0 rows clean_data raises nothing and returns 0 rows with
\* the same columns, and the summary reports 0 rows and an empty sample
C4_EmptyTableIsCleaned ==
    (Rows(raw) = 0 /\ pc \in {"done", "raised"}) =>
        /\ pc = "done"
        /\ Rows(df) = 0
        /\ ColNames(df) = ColNames(raw)
        /\ get_dataset_summary(df).rows = 0
        /\ \A c \in 1..Len(df) : get_dataset_summary(df).sample[c].vals = <<>>

\* C5: when a numeric, boolean or datetime column reaches imputation holding
\* only missing-markers, clean_data ends in an ImputationError
C5_AllMissingColumnFails ==
    ( /\ pc \in {"done", "raised"}
      /\ snap.dt # None
      /\ Rows(snap.dt) > 0
      /\ \E c \in 1..Len(snap.dt) :
            /\ snap.dt[c].dtype \in {"int64", "float64", "bool", "datetime64"}
            /\ Present(snap.dt[c]) = {} )
    => (pc = "raised" /\ err = "ImputationError")

\* C6: a column that is Categorical when imputation starts is Categorical in
\* the result, with "Unknown" in each cell that was missing and every other
\* cell unchanged
C6_CategoricalMissingIsUnknown ==
    Returned =>
        \A c \in 1..Len(df) :
            snap.dt[c].dtype = "category" =>
                /\ df[c].dtype = "category"
                /\ \A i \in 1..Rows(df) :
                      df[c].vals[i] = IF IsNa(snap.dt[c].vals[i]) THEN Str("Unknown")
                                      ELSE snap.dt[c].vals[i]

C10_ThreeWayInference ==
    (pc = "datetime") =>
        \A c \in 1..Len(df) :
            LET before == snap.dedup[c]
                after == df[c]
                n == Rows(snap.dedup)
                distinct == Cardinality({ before.vals[i] : i \in Present(before) })
            IN  CASE before.dtype = "object" ->
                        /\ n > 0
                        /\ after.vals = before.vals
                        /\ after.dtype = IF 10 * distinct < 3 * n THEN "category"
                                         ELSE "object"
                  [] before.dtype = "bool" -> after = before
                  [] OTHER ->
                        /\ after.dtype \in {"int64", "float64"}
                        /\ after.name = before.name
                        /\ Len(after.vals) = n

\* C10 witness: a text column with distinct / rows exactly 0.3 has been left text
C10_Witness ==
    /\ pc = "datetime"
    /\ \E c \in 1..Len(df) :
          /\ snap.dedup[c].dtype = "object"
          /\ Rows(df) > 0
          /\ 10 * nunique(snap.dedup[c]) = 3 * Rows(df)
          /\ df[c].dtype = "object"

----------------------------------------------------------------------------
(* Properties of the upload pipeline, checked under Spec *)

Logged(e) == \E i \in 1..Len(log) : log[i] = e

\* C8: no fault in generate_insights reaches main: it returns the prose or the
\* fallback message
C8_InsightsNeverPropagate ==
    /\ pc # "crashed"
    /\ pc \in {"write", "end"} /\ Logged("llm_chain.run")
          => insights \in {"prose", FallbackMessage}

\* C9: a load_data that fails shows an error, returns no table, and then no
\* preview is rendered and the generator is not called; a preview or a
\* generator call follows only a load_data that returned the cleaned table,
\* and the generator runs only with the summary of that table computed
C9_LoadFailureHaltsPipeline ==
    LET loaded == pc \notin {"main", "load_data"} /\ file.format # "none"
        failed == \/ file.format # (IF file.name = CsvName THEN "csv" ELSE "xlsx")
                  \/ clean_data(file.table).err # ""
        started == Logged("preview") \/ summary # None \/ Logged("llm_chain.run")
                   \/ pc \in {"generate_insights", "construct", "run", "write", "crashed"}
    IN  /\ (loaded /\ failed) =>
              /\ Logged("error")
              /\ df = None
              /\ ~started
        /\ started =>
              /\ loaded /\ ~failed
              /\ df # None
              /\ df = clean_data(file.table).df
        /\ Logged("llm_chain.run") => summary = <<get_dataset_summary(df)>>

\* C9 witness: clean_data raised inside load_data and main has ended
C9_Witness ==
    /\ pc = "end"
    /\ err = "ZeroDivisionError"
    /\ df = None
    /\ Logged("error")

====
